---------------------------- MODULE Spec2Model ----------------------------
(***************************************************************************)
(* environment-sanity: a wrapper that filters the inherited environment    *)
(* through a black list and a white list, overlays forced settings and     *)
(* replaces the process image.  Model of src/src/lib.rs and                *)
(* src/src/main.rs.                                                        *)
(*                                                                         *)
(* Names and values are byte sequences (OsString on unix): a byte is a     *)
(* natural number, a name is a sequence of bytes, equality is byte-exact   *)
(* as for the derived Eq/Hash of EnvironmentVariable.                      *)
(***************************************************************************)
EXTENDS Naturals, Integers, Sequences, FiniteSets, TLC

VARIABLES
    pc,                  \* position of main: the statement that runs next
    inherited,           \* the environment the process was started with
    environ,             \* the live process environment (vars_os reads it)
    defaultWhite,        \* the Vec handed to WhiteList::new
    programName,         \* parseCommandLineArguments().0
    outputArguments,     \* parseCommandLineArguments().1
    blackList,           \* BlackList.0
    whiteList,           \* WhiteList.0 (WhiteList.1 is blackList)
    settingsList,        \* SettingsList.0
    reader,              \* the configuration file being read (or read last)
    stderr,              \* the last line written to the error stream
    filteredEnvironment, \* main's filteredEnvironment
    environment,         \* main's environment, handed to execute
    opened,              \* kinds of the files opened so far, in order
    done,                \* pipeline steps completed so far, in order
    execAttempts         \* number of calls of CommandExt::exec

vars == <<pc, inherited, environ, defaultWhite, programName, outputArguments,
          blackList, whiteList, settingsList, reader, stderr,
          filteredEnvironment, environment, opened, done, execAttempts>>

-----------------------------------------------------------------------------
(* Bytes *)

AsciiNul == 0
Tab == 9
LineFeed == 10
Slash == 47

\* memchr's None
None == -1

\* Bound: the number of records a generated configuration file holds.
MaxRecords == 2

-----------------------------------------------------------------------------
(* The names and values of the defaults, as the bytes of their literals *)

HOME == <<72, 79, 77, 69>>
PATH == <<80, 65, 84, 72>>
TMPDIR == <<84, 77, 80, 68, 73, 82>>
TZ == <<84, 90>>
LOGNAME == <<76, 79, 71, 78, 65, 77, 69>>
USER == <<85, 83, 69, 82>>
LD_PRELOAD == <<76, 68, 95, 80, 82, 69, 76, 79, 65, 68>>
EtcUTC == <<69, 116, 99, 47, 85, 84, 67>>
EuropeLondon == <<69, 117, 114, 111, 112, 101, 47, 76, 111, 110, 100, 111, 110>>

\* home_dir(): the home folder of /etc/passwd, here "/root"
HomeFolder == <<47, 114, 111, 111, 116>>
\* ".environment-sanity/tmp"
TmpSubFolder ==
    <<46, 101, 110, 118, 105, 114, 111, 110, 109, 101, 110, 116,
      45, 115, 97, 110, 105, 116, 121, 47, 116, 109, 112>>
\* the program of the command line, "ls", and its argument "-la"
Ls == <<108, 115>>
DashLa == <<45, 108, 97>>

-----------------------------------------------------------------------------
(* Pure functions of lib.rs *)

\* memchr::memchr: zero-based index of the first needle, or None
memchr(needle, haystack) ==
    IF \E i \in 1..Len(haystack) : haystack[i] = needle
    THEN (CHOOSE i \in 1..Len(haystack) :
              /\ haystack[i] = needle
              /\ \A j \in 1..(i - 1) : haystack[j] # needle) - 1
    ELSE None

osStringFromRawBytesWithoutADelimiter(environmentVariableRawBytes) ==
    Append(environmentVariableRawBytes, AsciiNul)

fromRawBytesWithoutADelimiter(environmentVariableRawBytes) ==
    osStringFromRawBytesWithoutADelimiter(environmentVariableRawBytes)

\* impl From<&str> for EnvironmentVariable: the bytes of the literal
EnvironmentVariableFrom(string) == string

to_os_string(environmentVariableName) == environmentVariableName

isBlackListed(list, environmentVariableName) ==
    environmentVariableName \in list

isNotBlackListed(list, environmentVariableName) ==
    ~isBlackListed(list, environmentVariableName)

isWhiteListed(list, environmentVariableName) ==
    environmentVariableName \in list

\* HashMap::insert: insert or overwrite
Insert(map, key, value) ==
    [k \in (DOMAIN map) \cup {key} |-> IF k = key THEN value ELSE map[k]]

EmptyMap == [k \in {} |-> <<>>]

\* filterEnvironment with the negation of the black-list test lost
filterEnvironmentNegationLost(white, black, live) ==
    LET kept == {n \in DOMAIN live :
                    /\ isBlackListed(black, EnvironmentVariableFrom(to_os_string(n)))
                    /\ isWhiteListed(white, EnvironmentVariableFrom(to_os_string(n)))}
    IN  [n \in kept |-> live[n]]

\* WhiteList::filterEnvironment applied to the live environment
filterEnvironment(white, black, live) ==
    LET kept == {n \in DOMAIN live :
                    /\ isNotBlackListed(black, EnvironmentVariableFrom(to_os_string(n)))
                    /\ isWhiteListed(white, EnvironmentVariableFrom(to_os_string(n)))}
    IN  [n \in kept |-> live[n]]

\* addSettingsToEnvironment that keeps an entry the environment already has
addSettingsToEnvironmentKeeping(settings, env) ==
    [n \in (DOMAIN env) \cup {to_os_string(k) : k \in DOMAIN settings} |->
        IF n \in DOMAIN env THEN env[n] ELSE settings[n]]

\* SettingsList::addSettingsToEnvironment
addSettingsToEnvironment(settings, env) ==
    [n \in (DOMAIN env) \cup {to_os_string(k) : k \in DOMAIN settings} |->
        IF n \in DOMAIN settings THEN settings[n] ELSE env[n]]

\* PathBuf::join of a relative component
Join(folder, component) == folder \o <<Slash>> \o component

-----------------------------------------------------------------------------
(* The defaults of main.rs *)

\* a representative part of the 35 names of defaultBlackList
defaultBlackList == <<EnvironmentVariableFrom(LD_PRELOAD),
                      EnvironmentVariableFrom(LOGNAME),
                      EnvironmentVariableFrom(USER),
                      EnvironmentVariableFrom(HOME)>>

defaultWhiteList == <<EnvironmentVariableFrom(PATH), EnvironmentVariableFrom(TMPDIR)>>

\* The Vecs WhiteList::new is called with: main's, and one that overlaps the
\* black list's defaults.
DefaultWhiteLists ==
    {defaultWhiteList, Append(defaultWhiteList, EnvironmentVariableFrom(HOME))}

\* defaultSettings on linux, without the LC_* entries and HOMEBREW_NO_ANALYTICS
defaultSettings(program, live) ==
    LET s1 == Insert(EmptyMap, EnvironmentVariableFrom(TZ), EtcUTC)
        s2 == Insert(s1, EnvironmentVariableFrom(HOME), HomeFolder)
        s3 == Insert(s2, EnvironmentVariableFrom(TMPDIR),
                     Join(Join(HomeFolder, TmpSubFolder), program))
    IN  IF LOGNAME \in DOMAIN live
        THEN Insert(s3, EnvironmentVariableFrom(USER), live[LOGNAME])
        ELSE s3

-----------------------------------------------------------------------------
(* Inputs *)

Range(s) == {s[i] : i \in 1..Len(s)}

SeqsUpTo(S, n) == UNION {[1..k -> S] : k \in 0..n}

RECURSIVE JoinRecords(_)
JoinRecords(records) ==
    IF records = <<>> THEN <<>>
    ELSE IF Len(records) = 1 THEN records[1]
    ELSE records[1] \o <<LineFeed>> \o JoinRecords(Tail(records))

\* The files on disk: up to MaxRecords records separated by a linefeed, with
\* or without a final linefeed.
FilesOf(records) ==
    LET joined == {JoinRecords(rs) : rs \in SeqsUpTo(records, MaxRecords)}
    IN  joined \cup {Append(f, LineFeed) : f \in joined}

\* The records the generated files are made of: an empty record, names, a
\* record without a tab, records with a NUL.
BlackRecords == {<<>>, PATH, <<80, 65, AsciiNul, 84>>}

WhiteRecords == {<<>>, HOME, PATH, TMPDIR, <<80, 65, AsciiNul, 84>>}

SettingsRecords ==
    {<<>>,
     TZ \o <<Tab>> \o EuropeLondon,
     HOME \o <<Tab, Slash, Tab>>,
     TZ,
     <<Tab, AsciiNul>>}

FileContents(fileKind) ==
    IF fileKind = "Black" THEN FilesOf(BlackRecords)
    ELSE IF fileKind = "White" THEN FilesOf(WhiteRecords)
    ELSE FilesOf(SettingsRecords)

\* args_os().skip(1)
ArgChoices == {<<>>, <<<<>>>>, <<<<108, Slash, 115>>>>, <<Ls>>, <<Ls, DashLa>>}

InheritedValue(name) == <<Slash>> \o name

EnvNames == {PATH, TMPDIR, HOME, LOGNAME}

\* The inherited environments: none of the names, all of them, and two halves.
Envs ==
    {[n \in S |-> InheritedValue(n)] :
        S \in {{}, {PATH, HOME}, {TMPDIR, LOGNAME}, EnvNames}}

-----------------------------------------------------------------------------
(* The error stream and process exit *)

NoDiag == [level |-> "NONE", reason |-> "", fileKind |-> "", line |-> 0,
           column |-> 0, name |-> <<>>]

Diag(level, reason, fileKind, line, column, name) ==
    [level |-> level, reason |-> reason, fileKind |-> fileKind, line |-> line,
     column |-> column, name |-> name]

\* fatalExit! without its process::exit(1): the line is written and main goes on
fatalExitReturning(diag) ==
    /\ stderr' = diag
    /\ pc' = pc

\* fatalExit!: write the line, then process::exit(1)
fatalExit(diag) ==
    /\ stderr' = diag
    /\ pc' = "exited"

\* warn!: write the line and go on
warn(diag) == stderr' = diag

NoReader == [fileKind |-> "None", bytes |-> <<>>, pos |-> 1, line |-> 0]

-----------------------------------------------------------------------------
(* BufRead::split(LineFeed) *)

\* index of the linefeed that ends the record starting at pos, or Len + 1
RecordEnd(bytes, pos) ==
    IF \E i \in pos..Len(bytes) : bytes[i] = LineFeed
    THEN CHOOSE i \in pos..Len(bytes) :
             /\ bytes[i] = LineFeed
             /\ \A j \in pos..(i - 1) : bytes[j] # LineFeed
    ELSE Len(bytes) + 1

\* the record starting at pos, its delimiter excluded
RecordAt(bytes, pos) == SubSeq(bytes, pos, RecordEnd(bytes, pos) - 1)

AtEndOfFile(r) == r.pos > Len(r.bytes)

\* the loop without its line += 1
AdvanceKeepingLine(r) == [r EXCEPT !.pos = RecordEnd(r.bytes, r.pos) + 1]

Advance(r) == [r EXCEPT !.pos = RecordEnd(r.bytes, r.pos) + 1, !.line = r.line + 1]

-----------------------------------------------------------------------------
(* main *)

Init ==
    /\ pc = "home"
    /\ inherited \in Envs
    /\ environ = inherited
    /\ defaultWhite \in DefaultWhiteLists
    /\ programName = <<>>
    /\ outputArguments = <<>>
    /\ blackList = {}
    /\ whiteList = {}
    /\ settingsList = EmptyMap
    /\ reader = NoReader
    /\ stderr = NoDiag
    /\ filteredEnvironment = EmptyMap
    /\ environment = EmptyMap
    /\ opened = <<>>
    /\ done = <<>>
    /\ execAttempts = 0

\* main.rs line 23: homeFolderIgnoringValueOfHomeVariable()
HomeFolderIgnoringValueOfHomeVariable ==
    /\ pc = "home"
    /\ environ' = [n \in (DOMAIN environ) \ {HOME} |-> environ[n]]
    /\ \/ /\ fatalExit(Diag("EXIT", "NoHome", "", 0, 0, <<>>))
       \/ /\ pc' = "parse"
          /\ UNCHANGED stderr
    /\ UNCHANGED <<inherited, defaultWhite, programName, outputArguments,
                   blackList, whiteList, settingsList, reader,
                   filteredEnvironment, environment, opened, done, execAttempts>>

ParseCommandLineArguments ==
    /\ pc = "parse"
    /\ \E inputArguments \in ArgChoices :
          \/ /\ inputArguments = <<>>
             /\ fatalExit(Diag("EXIT", "NoArgument", "", 0, 0, <<>>))
             /\ UNCHANGED <<programName, outputArguments>>
          \/ /\ inputArguments # <<>>
             /\ inputArguments[1] = <<>>
             /\ fatalExit(Diag("EXIT", "EmptyArgument", "", 0, 0, <<>>))
             /\ UNCHANGED <<programName, outputArguments>>
          \/ /\ inputArguments # <<>>
             /\ inputArguments[1] # <<>>
             /\ memchr(Slash, inputArguments[1]) # None
             /\ fatalExit(Diag("EXIT", "PathArgument", "", 0, 0, inputArguments[1]))
             /\ UNCHANGED <<programName, outputArguments>>
          \/ /\ inputArguments # <<>>
             /\ inputArguments[1] # <<>>
             /\ memchr(Slash, inputArguments[1]) = None
             /\ programName' = inputArguments[1]
             /\ outputArguments' = Tail(inputArguments)
             /\ pc' = "blackNew"
             /\ UNCHANGED stderr
    /\ UNCHANGED <<inherited, environ, defaultWhite, blackList, whiteList,
                   settingsList, reader, filteredEnvironment, environment,
                   opened, done, execAttempts>>

BlackListNew ==
    /\ pc = "blackNew"
    /\ blackList' = Range(defaultBlackList)
    /\ pc' = "blackFile"
    /\ UNCHANGED <<inherited, environ, defaultWhite, programName, outputArguments,
                   whiteList, settingsList, reader, stderr, filteredEnvironment,
                   environment, opened, done, execAttempts>>

\* settingsFor(programName, fileKind) followed, when it returns a path, by the
\* File::open of addFromLinesListedInFile
SettingsFor(fileKind, pcRead, pcNext, step) ==
    /\ \/ /\ fatalExit(Diag("EXIT", "NoHome", "", 0, 0, <<>>))
          /\ UNCHANGED <<reader, opened, done>>
       \/ /\ pc' = pcNext
          /\ done' = Append(done, step)
          /\ UNCHANGED <<reader, opened, stderr>>
       \/ /\ fatalExit(Diag("EXIT", "Open", fileKind, 0, 0, <<>>))
          /\ UNCHANGED <<reader, opened, done>>
       \/ /\ \E bytes \in FileContents(fileKind) :
                reader' = [fileKind |-> fileKind, bytes |-> bytes, pos |-> 1, line |-> 0]
          /\ opened' = Append(opened, fileKind)
          /\ pc' = pcRead
          /\ UNCHANGED <<stderr, done>>
    /\ UNCHANGED <<inherited, environ, defaultWhite, programName, outputArguments,
                   filteredEnvironment, environment, execAttempts>>

\* The closures of the three addToFromFile

BlackListAdd(environmentVariableRawBytes, line) ==
    /\ blackList' = blackList \cup {fromRawBytesWithoutADelimiter(environmentVariableRawBytes)}
    /\ UNCHANGED <<pc, stderr, whiteList, settingsList>>

WhiteListAdd(environmentVariableRawBytes, line) ==
    LET environmentVariableName == fromRawBytesWithoutADelimiter(environmentVariableRawBytes)
    IN  /\ IF isBlackListed(blackList, environmentVariableName)
           THEN /\ warn(Diag("WARN", "BlackListed", "White", line, 0, environmentVariableName))
                /\ UNCHANGED whiteList
           ELSE /\ whiteList' = whiteList \cup {environmentVariableName}
                /\ UNCHANGED stderr
        /\ UNCHANGED <<pc, blackList, settingsList>>

\* SettingsList::addToFromFile taking a record without a tab as a name with an
\* empty value
SettingsListAddNameOnly(environmentVariableRawBytesExcludingDelimiter, line) ==
    LET index == memchr(Tab, environmentVariableRawBytesExcludingDelimiter)
        length == Len(environmentVariableRawBytesExcludingDelimiter)
        split == IF index = None THEN length ELSE index
    IN  /\ settingsList' =
               Insert(settingsList,
                      fromRawBytesWithoutADelimiter(
                          SubSeq(environmentVariableRawBytesExcludingDelimiter, 1, split)),
                      osStringFromRawBytesWithoutADelimiter(
                          SubSeq(environmentVariableRawBytesExcludingDelimiter,
                                 split + 2, length)))
        /\ UNCHANGED <<pc, stderr, blackList, whiteList>>

\* SettingsList::addToFromFile passing over an empty record
SettingsListAddSkippingEmpty(environmentVariableRawBytesExcludingDelimiter, line) ==
    LET index == memchr(Tab, environmentVariableRawBytesExcludingDelimiter)
        length == Len(environmentVariableRawBytesExcludingDelimiter)
    IN  /\ IF length = 0
           THEN UNCHANGED <<pc, stderr, settingsList>>
           ELSE IF index = None
           THEN /\ fatalExit(Diag("EXIT", "NoTab", "Settings", line, 0, <<>>))
                /\ UNCHANGED settingsList
           ELSE /\ settingsList' =
                      Insert(settingsList,
                             fromRawBytesWithoutADelimiter(
                                 SubSeq(environmentVariableRawBytesExcludingDelimiter, 1, index)),
                             osStringFromRawBytesWithoutADelimiter(
                                 SubSeq(environmentVariableRawBytesExcludingDelimiter,
                                        index + 2, length)))
                /\ UNCHANGED <<pc, stderr>>
        /\ UNCHANGED <<blackList, whiteList>>

SettingsListAdd(environmentVariableRawBytesExcludingDelimiter, line) ==
    LET index == memchr(Tab, environmentVariableRawBytesExcludingDelimiter)
        length == Len(environmentVariableRawBytesExcludingDelimiter)
    IN  /\ IF index = None
           THEN /\ fatalExit(Diag("EXIT", "NoTab", "Settings", line, 0, <<>>))
                /\ UNCHANGED settingsList
           ELSE /\ settingsList' =
                      Insert(settingsList,
                             fromRawBytesWithoutADelimiter(
                                 SubSeq(environmentVariableRawBytesExcludingDelimiter, 1, index)),
                             osStringFromRawBytesWithoutADelimiter(
                                 SubSeq(environmentVariableRawBytesExcludingDelimiter,
                                        index + 2, length)))
                /\ UNCHANGED <<pc, stderr>>
        /\ UNCHANGED <<blackList, whiteList>>

\* the closure addFromLinesListedInFile is called with
add(fileKind, environmentVariableRawBytes, line) ==
    IF fileKind = "Black" THEN BlackListAdd(environmentVariableRawBytes, line)
    ELSE IF fileKind = "White" THEN WhiteListAdd(environmentVariableRawBytes, line)
    ELSE SettingsListAdd(environmentVariableRawBytes, line)

\* One turn of the loop of addFromLinesListedInFile: the end of the file, a
\* read that fails, a record with a NUL, or a record handed to add.
AddFromLinesListedInFile(fileKind, pcNext, step) ==
    /\ reader.fileKind = fileKind
    /\ \/ /\ AtEndOfFile(reader)
          /\ pc' = pcNext
          /\ done' = Append(done, step)
          /\ UNCHANGED <<reader, stderr, blackList, whiteList, settingsList>>
       \/ /\ fatalExit(Diag("EXIT", "Read", fileKind, reader.line, 0, <<>>))
          /\ UNCHANGED <<reader, done, blackList, whiteList, settingsList>>
       \/ /\ ~AtEndOfFile(reader)
          /\ memchr(AsciiNul, RecordAt(reader.bytes, reader.pos)) # None
          /\ fatalExit(Diag("EXIT", "Nul", fileKind, reader.line,
                            memchr(AsciiNul, RecordAt(reader.bytes, reader.pos)), <<>>))
          /\ UNCHANGED <<reader, done, blackList, whiteList, settingsList>>
       \/ /\ ~AtEndOfFile(reader)
          /\ memchr(AsciiNul, RecordAt(reader.bytes, reader.pos)) = None
          /\ add(fileKind, RecordAt(reader.bytes, reader.pos), reader.line)
          \* a fatalExit! inside add ends the process before line += 1
          /\ reader' = IF pc' = "exited" THEN reader ELSE Advance(reader)
          /\ UNCHANGED done
    /\ UNCHANGED <<inherited, environ, defaultWhite, programName, outputArguments,
                   filteredEnvironment, environment, opened, execAttempts>>

BlackListFile ==
    /\ pc = "blackFile"
    /\ SettingsFor("Black", "blackRead", "whiteNew", "black")
    /\ UNCHANGED <<blackList, whiteList, settingsList>>

BlackListAddToFromFile ==
    /\ pc = "blackRead"
    /\ AddFromLinesListedInFile("Black", "whiteNew", "black")

\* WhiteList::new without its test of the black list
FirstBlackListedNever(black, defaults) == 0

\* the first default of the white list that the black list holds, or 0
FirstBlackListed(black, defaults) ==
    IF \E i \in 1..Len(defaults) : isBlackListed(black, defaults[i])
    THEN CHOOSE i \in 1..Len(defaults) :
             /\ isBlackListed(black, defaults[i])
             /\ \A j \in 1..(i - 1) : ~isBlackListed(black, defaults[j])
    ELSE 0

WhiteListNew ==
    /\ pc = "whiteNew"
    /\ LET i == FirstBlackListed(blackList, defaultWhite)
       IN  \/ /\ i # 0
              /\ whiteList' = {defaultWhite[j] : j \in 1..(i - 1)}
              /\ fatalExit(Diag("EXIT", "DefaultsOverlap", "", 0, 0, defaultWhite[i]))
           \/ /\ i = 0
              /\ whiteList' = Range(defaultWhite)
              /\ pc' = "whiteFile"
              /\ UNCHANGED stderr
    /\ UNCHANGED <<inherited, environ, defaultWhite, programName, outputArguments,
                   blackList, settingsList, reader, filteredEnvironment,
                   environment, opened, done, execAttempts>>

WhiteListFile ==
    /\ pc = "whiteFile"
    /\ SettingsFor("White", "whiteRead", "settingsNew", "white")
    /\ UNCHANGED <<blackList, whiteList, settingsList>>

WhiteListAddToFromFile ==
    /\ pc = "whiteRead"
    /\ AddFromLinesListedInFile("White", "settingsNew", "white")

SettingsListNew ==
    /\ pc = "settingsNew"
    /\ \/ /\ fatalExit(Diag("EXIT", "NoHome", "", 0, 0, <<>>))
          /\ UNCHANGED settingsList
       \/ /\ settingsList' = defaultSettings(programName, environ)
          /\ pc' = "settingsFile"
          /\ UNCHANGED stderr
    /\ UNCHANGED <<inherited, environ, defaultWhite, programName, outputArguments,
                   blackList, whiteList, reader, filteredEnvironment, environment,
                   opened, done, execAttempts>>

SettingsListFile ==
    /\ pc = "settingsFile"
    /\ SettingsFor("Settings", "settingsRead", "filter", "settings")
    /\ UNCHANGED <<blackList, whiteList, settingsList>>

SettingsListAddToFromFile ==
    /\ pc = "settingsRead"
    /\ AddFromLinesListedInFile("Settings", "filter", "settings")

FilterEnvironment ==
    /\ pc = "filter"
    /\ filteredEnvironment' = filterEnvironment(whiteList, blackList, environ)
    /\ pc' = "overlay"
    /\ done' = Append(done, "filter")
    /\ UNCHANGED <<inherited, environ, defaultWhite, programName, outputArguments,
                   blackList, whiteList, settingsList, reader, stderr,
                   environment, opened, execAttempts>>

AddSettingsToEnvironment ==
    /\ pc = "overlay"
    /\ environment' = addSettingsToEnvironment(settingsList, filteredEnvironment)
    /\ pc' = "exec"
    /\ done' = Append(done, "overlay")
    /\ UNCHANGED <<inherited, environ, defaultWhite, programName, outputArguments,
                   blackList, whiteList, settingsList, reader, stderr,
                   filteredEnvironment, opened, execAttempts>>

\* execute: exec replaces the process image, or returns an error
Execute ==
    /\ pc = "exec"
    /\ execAttempts' = execAttempts + 1
    /\ \/ /\ pc' = "replaced"
          /\ UNCHANGED stderr
       \/ /\ fatalExit(Diag("EXIT", "Exec", "", 0, 0, programName))
    /\ UNCHANGED <<inherited, environ, defaultWhite, programName, outputArguments,
                   blackList, whiteList, settingsList, reader,
                   filteredEnvironment, environment, opened, done>>

Next ==
    \/ HomeFolderIgnoringValueOfHomeVariable
    \/ ParseCommandLineArguments
    \/ BlackListNew
    \/ BlackListFile
    \/ BlackListAddToFromFile
    \/ WhiteListNew
    \/ WhiteListFile
    \/ WhiteListAddToFromFile
    \/ SettingsListNew
    \/ SettingsListFile
    \/ SettingsListAddToFromFile
    \/ FilterEnvironment
    \/ AddSettingsToEnvironment
    \/ Execute

Spec == Init /\ [][Next]_vars

-----------------------------------------------------------------------------
(* Vocabulary of the properties *)

\* the records BufRead::split yields for a file
RECURSIVE RecordsFrom(_, _)
RecordsFrom(bytes, pos) ==
    IF pos > Len(bytes) THEN <<>>
    ELSE <<RecordAt(bytes, pos)>> \o RecordsFrom(bytes, RecordEnd(bytes, pos) + 1)

Records(bytes) == RecordsFrom(bytes, 1)

HasTab(record) == \E i \in 1..Len(record) : record[i] = Tab

HasNul(record) == \E i \in 1..Len(record) : record[i] = AsciiNul

\* the bytes before and after the first tab of a settings record
NameOf(record) ==
    SubSeq(record, 1, (CHOOSE i \in 1..Len(record) :
                          record[i] = Tab /\ \A j \in 1..(i - 1) : record[j] # Tab) - 1)

ValueOf(record) == SubSeq(record, Len(NameOf(record)) + 2, Len(record))

\* number of linefeed bytes of the file before position p
LinefeedsBefore(bytes, p) == Cardinality({j \in 1..(p - 1) : bytes[j] = LineFeed})

\* 1-based position of the first NUL byte of the file
FirstNul(bytes) ==
    CHOOSE p \in 1..Len(bytes) :
        bytes[p] = AsciiNul /\ \A j \in 1..(p - 1) : bytes[j] # AsciiNul

Stages == <<"black", "white", "settings", "filter", "overlay">>

Terminated == pc \in {"exited", "replaced"}

Filtered == "filter" \in Range(done)

Overlaid == "overlay" \in Range(done)

-----------------------------------------------------------------------------
(* C1 *)

-----------------------------------------------------------------------------
(* C2 *)

\* C2: once the settings are overlaid, every entry of the settings list is
\* in the final environment with exactly its value, whatever the lists say
\* about its name and whatever the filtered environment held for it, and
\* every other entry of the filtered environment is unchanged; nothing else
\* is in the final environment.
C2_SettingsOverlay ==
    Overlaid =>
        /\ \A k \in DOMAIN settingsList :
              k \in DOMAIN environment /\ environment[k] = settingsList[k]
        /\ \A n \in (DOMAIN filteredEnvironment) \ (DOMAIN settingsList) :
              n \in DOMAIN environment /\ environment[n] = filteredEnvironment[n]
        /\ DOMAIN environment = (DOMAIN filteredEnvironment) \cup (DOMAIN settingsList)

\* a black-listed name set, a filtered value overwritten, another entry kept
C2_Witness ==
    /\ Overlaid
    /\ HOME \in blackList /\ HOME \in DOMAIN environment
    /\ TMPDIR \in DOMAIN filteredEnvironment
    /\ filteredEnvironment[TMPDIR] # environment[TMPDIR]
    /\ PATH \in DOMAIN filteredEnvironment /\ PATH \notin DOMAIN settingsList
    /\ environment[PATH] = InheritedValue(PATH)

-----------------------------------------------------------------------------
(* C3 *)

\* C3: when the settings file was read to its end, the final environment
\* holds, for the last record of each name, that name with the value of the
\* record: a record of the file overrides the default of the same name.
C3_FileSettingOverridesDefault ==
    (Overlaid /\ reader.fileKind = "Settings") =>
        LET records == Records(reader.bytes)
        IN  \A i \in 1..Len(records) :
               (/\ HasTab(records[i])
                /\ \A j \in (i + 1)..Len(records) :
                      HasTab(records[j]) => NameOf(records[j]) # NameOf(records[i]))
               => /\ NameOf(records[i]) \in DOMAIN environment
                  /\ environment[NameOf(records[i])] = ValueOf(records[i])

-----------------------------------------------------------------------------
(* C4 *)

\* C4: when the white-list file was read to its end and none of its records
\* is black-listed, the white list is exactly the defaults and the records,
\* each name the bytes of its record.
C4_WhiteFileRoundTrip ==
    (pc = "settingsNew" /\ reader.fileKind = "White") =>
        LET records == Records(reader.bytes)
        IN  (\A i \in 1..Len(records) :
                /\ isNotBlackListed(blackList, records[i])
                /\ isNotBlackListed(blackList, fromRawBytesWithoutADelimiter(records[i])))
            => whiteList = Range(defaultWhite) \cup Range(records)

-----------------------------------------------------------------------------
(* C5 *)

\* C5: no name is in both lists, and a record of the white-list file whose
\* name is in the black list puts nothing into the white list and makes the
\* last line of the error stream the warning for that record, after which
\* reading goes on.
C5_BlackListedRecordDropped ==
    /\ whiteList \cap blackList = {}
    /\ (pc = "whiteRead" /\ reader.line > 0) =>
          LET line == reader.line - 1
              record == Records(reader.bytes)[reader.line]
          IN  isBlackListed(blackList, record) =>
                 /\ stderr.level = "WARN"
                 /\ stderr.line = line
                 /\ record \notin whiteList
                 /\ fromRawBytesWithoutADelimiter(record) \notin whiteList

-----------------------------------------------------------------------------
(* C6 *)

DefaultsOverlap ==
    \E i \in 1..Len(defaultWhite) : defaultWhite[i] \in Range(defaultBlackList)

\* C6 as stated: the abort for overlapping defaults comes before any
\* configuration file is read, and process replacement never occurs.
C6_AbortBeforeAnyFile ==
    stderr.reason = "DefaultsOverlap" =>
        /\ pc = "exited"
        /\ opened = <<>>
        /\ execAttempts = 0

\* C6 as amended: when the white list's defaults overlap the black list's,
\* the run never gets past the construction of the white list: the white-list
\* file and the settings file are never opened (the black-list file may have
\* been), process replacement is never attempted, and the abort names the
\* first overlapping default, which is not inserted.
C6_AbortAtConstruction ==
    DefaultsOverlap =>
        /\ pc \in {"home", "parse", "blackNew", "blackFile", "blackRead",
                   "whiteNew", "exited"}
        /\ Range(opened) \subseteq {"Black"}
        /\ execAttempts = 0
        /\ done \in {<<>>, <<"black">>}
        /\ "black" \in Range(done) => pc \in {"whiteNew", "exited"}
        /\ ("black" \in Range(done) /\ pc = "exited") =>
              /\ stderr.level = "EXIT"
              /\ stderr.reason = "DefaultsOverlap"
              /\ stderr.name = defaultWhite[FirstBlackListed(blackList, defaultWhite)]
              /\ stderr.name \notin whiteList

\* the abort happened after the black-list file was read
C6_Witness ==
    /\ DefaultsOverlap
    /\ pc = "exited"
    /\ stderr.reason = "DefaultsOverlap"
    /\ stderr.name = HOME
    /\ opened = <<"Black">>
    /\ PATH \in whiteList

-----------------------------------------------------------------------------
(* C7 *)

\* C7: when the settings file has a record without a tab, the run never gets
\* past reading that file and never attempts process replacement: every
\* record left behind has a tab, and the abort for the missing tab names the
\* settings file and the zero-based index of the first record without a tab.
C7_NoTabAborts ==
    LET records == IF reader.fileKind = "Settings" THEN Records(reader.bytes) ELSE <<>>
    IN  (\E i \in 1..Len(records) : ~HasTab(records[i]))
        => /\ pc \in {"settingsRead", "exited"}
           /\ execAttempts = 0
           /\ "settings" \notin Range(done)
           /\ \A i \in 1..reader.line : HasTab(records[i])
           /\ pc = "exited" => stderr.reason \in {"Read", "Nul", "NoTab"}
           /\ stderr.reason = "NoTab" =>
                 /\ pc = "exited"
                 /\ stderr.level = "EXIT"
                 /\ stderr.fileKind = "Settings"
                 /\ stderr.line = reader.line
                 /\ ~HasTab(records[stderr.line + 1])
                 /\ \A i \in 1..stderr.line : HasTab(records[i])

\* the abort at a record without a tab that follows a record with one
C7_Witness ==
    /\ pc = "exited"
    /\ stderr.reason = "NoTab"
    /\ stderr.line = 1
    /\ Records(reader.bytes)[2] = TZ
    /\ fromRawBytesWithoutADelimiter(TZ) \in DOMAIN settingsList

-----------------------------------------------------------------------------
(* C8 *)

\* C8: when the black-list or white-list file has a NUL byte, the run never
\* gets past reading that file and never attempts process replacement: the
\* record with the first NUL is never handed on, and the abort for the NUL
\* names the file's kind and the number of linefeeds before the NUL as the
\* record's index, the record not being in the list.
C8_NulAborts ==
    (/\ reader.fileKind \in {"Black", "White"}
     /\ \E p \in 1..Len(reader.bytes) : reader.bytes[p] = AsciiNul)
    => LET p == FirstNul(reader.bytes)
           list == IF reader.fileKind = "Black" THEN blackList ELSE whiteList
       IN  /\ pc \in {IF reader.fileKind = "Black" THEN "blackRead" ELSE "whiteRead",
                      "exited"}
           /\ execAttempts = 0
           /\ reader.pos <= p
           /\ reader.line <= LinefeedsBefore(reader.bytes, p)
           /\ pc = "exited" => stderr.reason \in {"Read", "Nul"}
           /\ stderr.reason = "Nul" =>
                 /\ pc = "exited"
                 /\ stderr.level = "EXIT"
                 /\ stderr.fileKind = reader.fileKind
                 /\ stderr.line = LinefeedsBefore(reader.bytes, p)
                 /\ stderr.column = p - reader.pos
                 /\ HasNul(RecordAt(reader.bytes, reader.pos))
                 /\ fromRawBytesWithoutADelimiter(RecordAt(reader.bytes, reader.pos))
                       \notin list

\* the abort at a record with a NUL that follows another record of the
\* white-list file
C8_Witness ==
    /\ pc = "exited"
    /\ reader.fileKind = "White"
    /\ stderr.reason = "Nul"
    /\ stderr.line = 1
    /\ stderr.column = 2
    /\ fromRawBytesWithoutADelimiter(TMPDIR) \in whiteList

-----------------------------------------------------------------------------
(* C9 *)

\* C9 as stated: an empty record of the settings file adds no entry and does
\* not abort the run: the abort for a missing tab is never at an empty record.
C9_EmptyRecordSkipped ==
    (stderr.reason = "NoTab" /\ reader.fileKind = "Settings") =>
        RecordAt(reader.bytes, reader.pos) # <<>>

\* C9 as amended: the tab is required of every record of the settings file,
\* an empty one included: when the file has an empty record, the run never
\* gets past reading the file, no empty record is left behind, and unless the
\* read fails the run aborts at the empty record for its missing tab, with
\* the record's index and no entry added for it.
C9_EmptyRecordAborts ==
    LET records == IF reader.fileKind = "Settings" THEN Records(reader.bytes) ELSE <<>>
    IN  (\E i \in 1..Len(records) : records[i] = <<>>)
        => /\ pc \in {"settingsRead", "exited"}
           /\ execAttempts = 0
           /\ \A i \in 1..reader.line : records[i] # <<>>
           /\ fromRawBytesWithoutADelimiter(<<>>) \notin DOMAIN settingsList
           /\ (/\ pc = "exited"
               /\ ~AtEndOfFile(reader)
               /\ RecordAt(reader.bytes, reader.pos) = <<>>)
              => /\ stderr.reason \in {"Read", "NoTab"}
                 /\ stderr.line = reader.line
                 /\ stderr.line = LinefeedsBefore(reader.bytes, reader.pos)

\* the abort at an empty record that follows a record with a tab
C9_Witness ==
    /\ pc = "exited"
    /\ stderr.reason = "NoTab"
    /\ stderr.line = 1
    /\ RecordAt(reader.bytes, reader.pos) = <<>>
    /\ fromRawBytesWithoutADelimiter(TZ) \in DOMAIN settingsList

-----------------------------------------------------------------------------
(* C10 *)

IsPrefix(s, t) == Len(s) <= Len(t) /\ s = SubSeq(t, 1, Len(s))

C10_Outcome ==
    /\ execAttempts <= 1
    /\ IsPrefix(done, Stages)
    /\ execAttempts = 1 => (done = Stages /\ Terminated)
    /\ pc = "exec" => done = Stages
    /\ pc = "replaced" => (execAttempts = 1 /\ stderr.level # "EXIT")
    /\ stderr.level = "EXIT" <=> pc = "exited"
    /\ (stderr.level = "EXIT" /\ stderr.reason # "Exec") => execAttempts = 0
    /\ Terminated \/ ENABLED Next

\* C10: a run ends in a fatal exit or in process replacement and nowhere
\* else; process replacement is attempted at most once and only after the
\* five steps in their order; after a fatal exit or the replacement no step
\* runs.
C10_OneOutcome == [](C10_Outcome) /\ [][~Terminated]_vars

\* both outcomes after the whole pipeline: the replacement, and the fatal
\* exit of a failed replacement
C10_Witness ==
    /\ done = Stages
    /\ execAttempts = 1
    /\ pc = "exited"
    /\ stderr.reason = "Exec"
    /\ opened = <<"Black", "White", "Settings">>

=============================================================================
